---- MODULE Spec2Model ----
(***************************************************************************)
(* ljobs: the job dispatcher (master), the per-child watcher threads, the  *)
(* completion collector (wait_jobs / done_job / show_output) and the exit  *)
(* status computed by main, as a state machine.                            *)
(*                                                                         *)
(* One master thread walks the task list; each successfully spawned child  *)
(* gets a watcher thread that waits for it and sends the finished Job on   *)
(* an mpsc channel; the master receives from that channel in wait_jobs.    *)
(*                                                                         *)
(* The main thread is cut at the points where other threads can be seen to *)
(* act: one step per loop iteration up to the recv it may block in, one    *)
(* per recv, one per read and per write of show_output, one for the match  *)
(* of done_job.  A watcher thread touches shared state only when it sends, *)
(* so its wait and its send are one step.                                  *)
(*                                                                         *)
(* Inputs: the options, the number of tasks, whether the command writes to *)
(* its stderr and its stdout (the same for every task of a run), fixed at  *)
(* the start; whether a spawn fails and how a child ends, drawn when the   *)
(* spawn is made and when the child ends.                                  *)
(***************************************************************************)
EXTENDS Integers, Sequences, FiniteSets

(* ---- bounds of the model ---- *)
MaxTasks == 3
MaxJobs == 2

(* ---- values a child can end with ---- *)
ExitCodes == {0, 2}
SignalNums == {9}

(* what child.wait() can return in the watcher thread *)
WaitResults ==
    {[kind |-> "waiterr", n |-> 0]}
    \cup {[kind |-> "exit", n |-> c] : c \in ExitCodes}
    \cup {[kind |-> "signal", n |-> s] : s \in SignalNums}

SpawnFailed == [kind |-> "spawnfail", n |-> 0]

Unknown == [kind |-> "unknown", n |-> 0]

(* what a pipe made by Stdio::piped() holds before a write to it blocks,   *)
(* taken as the unit of the amounts a command writes                       *)
PipeCapacity == 1

(* amounts a command writes to a captured stream: nothing, what the pipe   *)
(* can hold, more than the pipe can hold                                   *)
CapturedSizes == {0, 1, 2}

VARIABLES
    opts,        \* Options: maxjobs, keepgoing, verbose, dryrun
    ntasks,      \* number of tasks the source yields before it ends
    captured,    \* bytes the command writes to its stderr and to its stdout
    outcome,     \* outcome[i]: how task i's command ended, Unknown before
    pc,          \* position of the main thread
    waitall,     \* argument of the wait_jobs call in progress
    numjobs, tasknum, errs, failedexit,   \* locals of master
    child,       \* child[i]: state of task i's process and watcher thread
    queue,       \* jobs sent on the channel and not yet received
    job,         \* task index of the Job wait_jobs holds, -1 when none
    pending,     \* writes show_output still has to make
    trace,       \* every write made to stdout and stderr, in order
    dispatched,  \* task indices dry-run-printed or spawn-attempted, in order
    collected,   \* task indices classified by done_job, in order
    status       \* exit status of the program, -1 while it runs

vars == <<opts, ntasks, captured, outcome, pc, waitall, numjobs, tasknum,
          errs, failedexit, child, queue, job, pending, trace, dispatched,
          collected, status>>

Tasks == 0 .. (ntasks - 1)

Min(a, b) == IF a < b THEN a ELSE b

Line(s, i, k) == [stream |-> s, task |-> i, kind |-> k]

(* ---- main: the exit status ---- *)
(* variant: the test "errs > 0" of the fail-fast branch is missing *)
ExitStatusNoZeroCheck(keepgoing, e, fe) ==
    IF keepgoing THEN Min(254, e) ELSE fe

(* variant: the keep-going branch is missing *)
ExitStatusIgnoresKeepGoing(keepgoing, e, fe) ==
    IF e > 0 THEN fe ELSE 0

ExitStatus(keepgoing, e, fe) ==
    IF keepgoing THEN Min(254, e)
    ELSE IF e > 0 THEN fe
    ELSE 0

(* ---- master: the two tests after a task ---- *)
(* variant: ">" for ">=" in the slot test *)
NeedWaitStrict(n, maxjobs) == n > maxjobs

NeedWait(n, maxjobs) == n >= maxjobs

(* variant: the loop stops only after a second error *)
StopAfterSecond(e, keepgoing) == e > 1 /\ ~keepgoing

(* variant: the loop ignores keepgoing *)
StopAfterAny(e, keepgoing) == e > 0

StopAfter(e, keepgoing) == e > 0 /\ ~keepgoing

AfterWait(e) ==
    IF StopAfter(e, opts.keepgoing)
    THEN pc' = "loopexit" /\ tasknum' = tasknum
    ELSE pc' = "loop" /\ tasknum' = tasknum + 1

AfterTask(n, e) ==
    IF NeedWait(n, opts.maxjobs)
    THEN pc' = "wait_jobs" /\ waitall' = FALSE /\ tasknum' = tasknum
    ELSE AfterWait(e) /\ waitall' = waitall

Init ==
    /\ opts \in [maxjobs : 1 .. MaxJobs, keepgoing : BOOLEAN,
                 verbose : BOOLEAN, dryrun : BOOLEAN]
    /\ ntasks \in 0 .. MaxTasks
    /\ captured \in [stderr : CapturedSizes, stdout : CapturedSizes]
    /\ outcome = [i \in 0 .. (ntasks - 1) |-> Unknown]
    /\ pc = "loop"
    /\ waitall = FALSE
    /\ numjobs = 0
    /\ tasknum = 0
    /\ errs = 0
    /\ failedexit = 255
    /\ child = [i \in 0 .. (ntasks - 1) |-> "none"]
    /\ queue = <<>>
    /\ job = -1
    /\ pending = <<>>
    /\ trace = <<>>
    /\ dispatched = <<>>
    /\ collected = <<>>
    /\ status = -1

(* variant: the "start" line is never written *)
StartLinesNever(i) == <<>>

StartLines(i) ==
    IF opts.verbose THEN <<Line("stderr", i, "start")>> ELSE <<>>

(* ---- master: one iteration of the 'main loop up to its first block ---- *)
SourceEnd ==
    /\ pc = "loop"
    /\ tasknum >= ntasks
    /\ pc' = "loopexit"
    /\ UNCHANGED <<opts, ntasks, captured, outcome, waitall, numjobs, tasknum,
                   errs, failedexit, child, queue, job, pending, trace,
                   dispatched, collected, status>>

(* variant: the "else" of the dry-run test is missing, the task is spawned too *)
DryRunSpawns ==
    /\ pc = "loop"
    /\ tasknum < ntasks
    /\ opts.dryrun
    /\ trace' = Append(trace, Line("stdout", tasknum, "dryrun"))
    /\ dispatched' = Append(dispatched, tasknum)
    /\ numjobs' = numjobs + 1
    /\ child' = [child EXCEPT ![tasknum] = "running"]
    /\ AfterTask(numjobs + 1, errs)
    /\ UNCHANGED <<opts, ntasks, captured, outcome, errs, failedexit, queue, job,
                   pending, collected, status>>

DryRun ==
    /\ pc = "loop"
    /\ tasknum < ntasks
    /\ opts.dryrun
    /\ trace' = Append(trace, Line("stdout", tasknum, "dryrun"))
    /\ dispatched' = Append(dispatched, tasknum)
    /\ AfterTask(numjobs, errs)
    /\ UNCHANGED <<opts, ntasks, captured, outcome, numjobs, errs, failedexit,
                   child, queue, job, pending, collected, status>>

SpawnOk ==
    /\ pc = "loop"
    /\ tasknum < ntasks
    /\ ~opts.dryrun
    /\ trace' = trace \o StartLines(tasknum)
    /\ numjobs' = numjobs + 1
    /\ child' = [child EXCEPT ![tasknum] = "running"]
    /\ dispatched' = Append(dispatched, tasknum)
    /\ AfterTask(numjobs + 1, errs)
    /\ UNCHANGED <<opts, ntasks, captured, outcome, errs, failedexit, queue,
                   job, pending, collected, status>>

(* variant: numjobs is incremented before the result of spawn is looked at *)
SpawnErrTakesSlot ==
    /\ pc = "loop"
    /\ tasknum < ntasks
    /\ ~opts.dryrun
    /\ outcome' = [outcome EXCEPT ![tasknum] = SpawnFailed]
    /\ trace' = trace \o StartLines(tasknum)
                      \o <<Line("stderr", tasknum, "error")>>
    /\ errs' = errs + 1
    /\ numjobs' = numjobs + 1
    /\ child' = [child EXCEPT ![tasknum] = "spawnfailed"]
    /\ dispatched' = Append(dispatched, tasknum)
    /\ AfterTask(numjobs + 1, errs + 1)
    /\ UNCHANGED <<opts, ntasks, captured, failedexit, queue, job, pending, collected,
                   status>>

SpawnErr ==
    /\ pc = "loop"
    /\ tasknum < ntasks
    /\ ~opts.dryrun
    /\ outcome' = [outcome EXCEPT ![tasknum] = SpawnFailed]
    /\ trace' = trace \o StartLines(tasknum)
                      \o <<Line("stderr", tasknum, "error")>>
    /\ errs' = errs + 1
    /\ child' = [child EXCEPT ![tasknum] = "spawnfailed"]
    /\ dispatched' = Append(dispatched, tasknum)
    /\ AfterTask(numjobs, errs + 1)
    /\ UNCHANGED <<opts, ntasks, captured, numjobs, failedexit, queue, job, pending,
                   collected, status>>

(* die!("error reading standard input") *)
DieStdin ==
    /\ pc = "loop"
    /\ pc' = "died"
    /\ trace' = Append(trace, Line("stderr", tasknum, "fatal"))
    /\ status' = 255
    /\ UNCHANGED <<opts, ntasks, captured, outcome, waitall, numjobs, tasknum,
                   errs, failedexit, child, queue, job, pending, dispatched,
                   collected>>

(* ---- master: the final wait_jobs(waitall = true) ---- *)
Drain ==
    /\ pc = "loopexit"
    /\ pc' = "wait_jobs"
    /\ waitall' = TRUE
    /\ UNCHANGED <<opts, ntasks, captured, outcome, numjobs, tasknum, errs,
                   failedexit, child, queue, job, pending, trace, dispatched,
                   collected, status>>

(* ---- the child process of a task ---- *)
(* Nothing reads the two pipes of a child before done_job, which runs      *)
(* after the watcher has sent the Job: a child ends only if what it writes *)
(* fits into the pipes, otherwise it stays blocked in a write.             *)
ChildCanExit ==
    captured.stderr <= PipeCapacity /\ captured.stdout <= PipeCapacity

(* ---- the watcher thread of task i: child.wait(), then tx.send(job) ---- *)
(* variant: the watcher thread itself reports the end of its child on stderr *)
WatcherLogs(i) ==
    /\ i \in Tasks
    /\ child[i] = "running"
    /\ ChildCanExit
    /\ \E res \in WaitResults : outcome' = [outcome EXCEPT ![i] = res]
    /\ child' = [child EXCEPT ![i] = "sent"]
    /\ queue' = Append(queue, i)
    /\ trace' = Append(trace, Line("stderr", i, "done"))
    /\ UNCHANGED <<opts, ntasks, captured, pc, waitall, numjobs, tasknum, errs,
                   failedexit, job, pending, dispatched, collected, status>>

Watcher(i) ==
    /\ i \in Tasks
    /\ child[i] = "running"
    /\ ChildCanExit
    /\ \E res \in WaitResults : outcome' = [outcome EXCEPT ![i] = res]
    /\ child' = [child EXCEPT ![i] = "sent"]
    /\ queue' = Append(queue, i)
    /\ UNCHANGED <<opts, ntasks, captured, pc, waitall, numjobs, tasknum, errs,
                   failedexit, job, pending, trace, dispatched, collected,
                   status>>

(* ---- wait_jobs ---- *)
(* variant: the loop stops while one job is still in flight *)
WaitJobsLoopsAboveOne(n) == n > 1

(* "while *numjobs > 0" *)
WaitJobsLoops(n) == n > 0

(* variant: "*numjobs -= 1" is missing *)
RecvKeepsCount ==
    /\ pc = "wait_jobs"
    /\ WaitJobsLoops(numjobs)
    /\ queue # <<>>
    /\ job' = Head(queue)
    /\ queue' = Tail(queue)
    /\ child' = [child EXCEPT ![Head(queue)] = "received"]
    /\ pc' = "show_stderr"
    /\ UNCHANGED <<opts, ntasks, captured, outcome, waitall, numjobs, tasknum,
                   errs, failedexit, pending, trace, dispatched, collected,
                   status>>

Recv ==
    /\ pc = "wait_jobs"
    /\ WaitJobsLoops(numjobs)
    /\ queue # <<>>
    /\ job' = Head(queue)
    /\ queue' = Tail(queue)
    /\ numjobs' = numjobs - 1
    /\ child' = [child EXCEPT ![Head(queue)] = "received"]
    /\ pc' = "show_stderr"
    /\ UNCHANGED <<opts, ntasks, captured, outcome, waitall, tasknum, errs,
                   failedexit, pending, trace, dispatched, collected, status>>

WaitJobsReturn ==
    /\ pc = "wait_jobs"
    /\ ~WaitJobsLoops(numjobs)
    /\ IF waitall
       THEN /\ pc' = "exit"
            /\ status' = ExitStatus(opts.keepgoing, errs, failedexit)
            /\ tasknum' = tasknum
       ELSE AfterWait(errs) /\ status' = status
    /\ UNCHANGED <<opts, ntasks, captured, outcome, waitall, numjobs, errs,
                   failedexit, child, queue, job, pending, trace, dispatched,
                   collected>>

(* ---- show_output ---- *)
ShowOutputWrites(s, i, n, sep) ==
    IF n = 0 THEN <<>>
    ELSE (IF sep THEN <<Line(s, i, "open")>> ELSE <<>>)
         \o <<Line(s, i, "bytes")>>
         \o (IF sep THEN <<Line(s, i, "close")>> ELSE <<>>)

(* variant: done_job goes from the stderr block straight to the match *)
AfterShowSkipsStdout(p) == "classify"

AfterShow(p) ==
    IF p = "show_stderr" THEN "show_stdout" ELSE "classify"

ShowOutputRead ==
    /\ pc \in {"show_stderr", "show_stdout"}
    /\ pending = <<>>
    /\ LET w == IF pc = "show_stderr"
                THEN ShowOutputWrites("stderr", job, captured.stderr,
                                      opts.verbose)
                ELSE ShowOutputWrites("stdout", job, captured.stdout, FALSE)
       IN  /\ pending' = w
           /\ pc' = IF w = <<>> THEN AfterShow(pc) ELSE pc
    /\ UNCHANGED <<opts, ntasks, captured, outcome, waitall, numjobs, tasknum,
                   errs, failedexit, child, queue, job, trace, dispatched,
                   collected, status>>

ShowOutputWrite ==
    /\ pc \in {"show_stderr", "show_stdout"}
    /\ pending # <<>>
    /\ trace' = Append(trace, Head(pending))
    /\ pending' = Tail(pending)
    /\ pc' = IF Tail(pending) = <<>> THEN AfterShow(pc) ELSE pc
    /\ UNCHANGED <<opts, ntasks, captured, outcome, waitall, numjobs, tasknum,
                   errs, failedexit, child, queue, job, dispatched, collected,
                   status>>

(* die!("read error") / die!("write error") *)
DieOutput ==
    /\ pc \in {"show_stderr", "show_stdout"}
    /\ pc' = "died"
    /\ trace' = Append(trace, Line("stderr", job, "fatal"))
    /\ status' = 255
    /\ UNCHANGED <<opts, ntasks, captured, outcome, waitall, numjobs, tasknum,
                   errs, failedexit, child, queue, job, pending, dispatched,
                   collected>>

(* ---- done_job: the match on job.waitresult ---- *)
IsFailure(o) == ~(o.kind = "exit" /\ o.n = 0)

(* variant: the signal number is stored without the 128 offset *)
FailCodeRawSignal(o) ==
    IF o.kind = "exit" THEN o.n
    ELSE IF o.kind = "signal" THEN o.n
    ELSE 255

FailCode(o) ==
    IF o.kind = "exit" THEN o.n
    ELSE IF o.kind = "signal" THEN 128 + o.n
    ELSE 255

(* variant: the signal arm does not count the error *)
DoneJobErrsNoSignal(o, e) ==
    IF IsFailure(o) /\ o.kind # "signal" THEN e + 1 ELSE e

DoneJobErrs(o, e) == IF IsFailure(o) THEN e + 1 ELSE e

(* variant: the largest code seen so far is kept *)
DoneJobFailedExitMax(o, fe) ==
    IF IsFailure(o) /\ (fe = 255 \/ FailCode(o) > fe) THEN FailCode(o) ELSE fe

(* variant: the exit arm does not store the code *)
DoneJobFailedExitNoExit(o, fe) ==
    IF IsFailure(o) /\ o.kind # "exit" THEN FailCode(o) ELSE fe

DoneJobFailedExit(o, fe) == IF IsFailure(o) THEN FailCode(o) ELSE fe

StatusLines(i, o, verbose) ==
    IF o.kind = "waiterr" THEN <<Line("stderr", i, "waiterr")>>
    ELSE IF ~verbose THEN <<>>
    ELSE IF o.kind = "signal" THEN <<Line("stderr", i, "signal")>>
    ELSE IF o.n = 0 THEN <<Line("stderr", i, "done")>>
    ELSE <<Line("stderr", i, "exit")>>

(* wait_jobs: "if !waitall { break }" after a job *)
(* variant: the break is missing, every call drains all jobs *)
BreakAfterJobNever(wa) == FALSE

(* variant: the test of waitall is inverted *)
BreakAfterJobInverted(wa) == wa

BreakAfterJob(wa) == ~wa

Classify ==
    /\ pc = "classify"
    /\ trace' = trace \o StatusLines(job, outcome[job], opts.verbose)
    /\ errs' = DoneJobErrs(outcome[job], errs)
    /\ failedexit' = DoneJobFailedExit(outcome[job], failedexit)
    /\ collected' = Append(collected, job)
    /\ child' = [child EXCEPT ![job] = "collected"]
    /\ job' = -1
    /\ IF BreakAfterJob(waitall)
       THEN AfterWait(errs')
       ELSE pc' = "wait_jobs" /\ tasknum' = tasknum
    /\ UNCHANGED <<opts, ntasks, captured, outcome, waitall, numjobs, queue,
                   pending, dispatched, status>>

(* ---- the threads ---- *)
Master ==
    \/ SourceEnd
    \/ DryRun
    \/ SpawnOk
    \/ SpawnErr
    \/ Drain
    \/ Recv
    \/ WaitJobsReturn
    \/ ShowOutputRead
    \/ ShowOutputWrite
    \/ Classify

Die == DieStdin \/ DieOutput

Next ==
    \/ Master
    \/ Die
    \/ \E i \in 0 .. (MaxTasks - 1) : Watcher(i)

Spec == Init /\ [][Next]_vars

(* Every thread keeps running.  Whether log lines are written has no       *)
(* bearing on which steps are enabled, so progress is checked on the runs  *)
(* without log lines whose commands write to stderr only.                  *)
InitQuiet == Init /\ ~opts.verbose /\ captured.stdout = 0

(* the runs in which every spawned process terminates *)
InitTerminating == InitQuiet /\ ChildCanExit

FairSpec ==
    /\ InitTerminating
    /\ [][Next]_vars
    /\ WF_vars(Master)
    /\ \A i \in 0 .. (MaxTasks - 1) : WF_vars(Watcher(i))

(* the same threads, whatever the commands write *)
FairPipeSpec ==
    /\ InitQuiet
    /\ [][Next]_vars
    /\ WF_vars(Master)
    /\ \A i \in 0 .. (MaxTasks - 1) : WF_vars(Watcher(i))

(***************************************************************************)
(* Properties                                                              *)
(***************************************************************************)

Known(i) == outcome[i].kind # "unknown"

(* the outcome is not a clean exit 0 *)
NotSuccess(o) == o # [kind |-> "exit", n |-> 0]

(* tasks whose spawn succeeded and whose Job wait_jobs has not received *)
InFlight == {i \in Tasks : child[i] \in {"running", "sent"}}

(* tasks whose child process has not terminated *)
LiveChildren == {i \in Tasks : child[i] = "running"}

SpawnFailedTasks == {i \in Tasks : child[i] = "spawnfailed"}

CollectedTasks == {i \in Tasks : child[i] = "collected"}

(* tasks whose command is known to have failed, collected or not *)
FailingTasks == {i \in Tasks : Known(i) /\ NotSuccess(outcome[i])}

(* C1: the number of jobs spawned and not yet received by wait_jobs, and   *)
(* with it the number of live child processes, never exceeds maxjobs, also *)
(* between a spawn and the wait that follows it.                           *)
C1_InFlightBound ==
    /\ numjobs <= opts.maxjobs
    /\ Cardinality(InFlight) <= opts.maxjobs
    /\ Cardinality(LiveChildren) <= numjobs

(* C1 witness: all slots taken, the master about to block in wait_jobs     *)
(* right after the spawn that filled the last slot.                        *)
C1_Witness ==
    /\ opts.maxjobs = MaxJobs
    /\ numjobs = opts.maxjobs
    /\ Cardinality(LiveChildren) = opts.maxjobs
    /\ pc = "wait_jobs"
    /\ ~waitall

(* C2 as stated: with keepgoing off, once the command of some task has     *)
(* failed (its process ended with a nonzero exit, a signal or a wait       *)
(* error, or its spawn failed), no further task is dispatched.             *)
C2_Original ==
    [][(~opts.keepgoing /\ FailingTasks # {}) => dispatched' = dispatched]_vars

(* C2 amended: with keepgoing off, once a failure has been recorded        *)
(* (errs > 0: a spawn failure, or a failed job classified by done_job) no  *)
(* further task is dispatched; and when the program exits every spawned    *)
(* job has been collected.                                                 *)
C2_NoDispatchAfterRecordedFailure ==
    /\ [][(~opts.keepgoing /\ errs > 0) => dispatched' = dispatched]_vars
    /\ [](pc = "exit" => \A i \in Tasks :
                child[i] \in {"none", "spawnfailed", "collected"})

(* C2 witness: a fail-fast run has exited with its last task never         *)
(* dispatched: the first job collected had failed, and the job that was    *)
(* still in flight at that time has been collected after it.               *)
C2_Witness ==
    /\ ~opts.keepgoing
    /\ pc = "exit"
    /\ errs > 0
    /\ Len(dispatched) < ntasks
    /\ Len(collected) = 2
    /\ NotSuccess(outcome[collected[1]])

(* C3: with keepgoing on, every task of the source is dispatched exactly   *)
(* once, whatever fails, unless the run dies of a fatal error.             *)
AllDispatchedOnce ==
    dispatched = [k \in 1 .. ntasks |-> k - 1]

C3_KeepGoingDispatchesAll ==
    /\ [](\A k, l \in 1 .. Len(dispatched) :
             dispatched[k] = dispatched[l] => k = l)
    /\ (opts.keepgoing ~> (pc = "died" \/ AllDispatchedOnce))

(* C3 witness: a keep-going run in which the first task failed and all     *)
(* tasks have been dispatched.                                             *)
C3_Witness ==
    /\ opts.keepgoing
    /\ ntasks = MaxTasks
    /\ AllDispatchedOnce
    /\ 0 \in FailingTasks
    /\ pc = "exit"

(* the exit code done_job stores for a failed job *)
CodeOf(o) ==
    IF o.kind = "exit" THEN o.n
    ELSE IF o.kind = "signal" THEN 128 + o.n
    ELSE 255

(* the failed jobs in the order done_job classified them *)
FailedCollected == SelectSeq(collected, LAMBDA i : NotSuccess(outcome[i]))

(* E: the tasks that failed, by spawn or by outcome *)
ErrorCount == Cardinality(FailingTasks)

(* C4 as stated: the final status is min(254, E) with keepgoing; without   *)
(* it, when E > 0, it is the code of the failed job done_job classified    *)
(* last (so there is one); otherwise 0.                                    *)
C4_Original ==
    pc = "exit" =>
        status = IF opts.keepgoing THEN Min(254, ErrorCount)
                 ELSE IF ErrorCount > 0
                      THEN IF FailedCollected # <<>>
                           THEN CodeOf(outcome[FailedCollected[
                                                  Len(FailedCollected)]])
                           ELSE -1
                 ELSE 0

(* C4 amended: as C4, and in a fail-fast run with E > 0 in which no        *)
(* collected job failed (every failure is a failed spawn) the status is    *)
(* 255.                                                                    *)
C4_FinalStatus ==
    pc = "exit" =>
        status = IF opts.keepgoing THEN Min(254, ErrorCount)
                 ELSE IF ErrorCount > 0
                      THEN IF FailedCollected # <<>>
                           THEN CodeOf(outcome[FailedCollected[
                                                  Len(FailedCollected)]])
                           ELSE 255
                 ELSE 0

(* C4 witness: scenario C, a keep-going run of three tasks ending with     *)
(* exit 2, exit 0 and signal 9: two errors, status 2.                      *)
C4_Witness ==
    /\ pc = "exit"
    /\ opts.keepgoing
    /\ ntasks = 3
    /\ outcome[0] = [kind |-> "exit", n |-> 2]
    /\ outcome[1] = [kind |-> "exit", n |-> 0]
    /\ outcome[2] = [kind |-> "signal", n |-> 9]
    /\ errs = 2
    /\ status = 2

(* C5 as stated: errs is the number of collected jobs whose outcome is not *)
(* Success, also when spawns fail.                                         *)
C5_Original ==
    errs = Cardinality({i \in CollectedTasks : NotSuccess(outcome[i])})

(* C5 amended: errs is the number of collected jobs whose outcome is not   *)
(* Success plus the number of tasks whose spawn failed.                    *)
C5_ErrorCount ==
    errs = Cardinality({i \in CollectedTasks : NotSuccess(outcome[i])})
           + Cardinality(SpawnFailedTasks)

(* C5 witness: a failed spawn, a failed job and a successful job have all  *)
(* been counted.                                                           *)
C5_Witness ==
    /\ Cardinality(SpawnFailedTasks) = 1
    /\ \E i, j \in CollectedTasks :
          NotSuccess(outcome[i]) /\ ~NotSuccess(outcome[j])
    /\ errs = 2

(* the first task in source order whose command failed *)
FirstFailing == CHOOSE i \in FailingTasks : \A j \in FailingTasks : i <= j

(* the status of the fail-fast run in which the first failing task is the  *)
(* last failed job to be collected                                         *)
FirstFailStatus ==
    IF FailingTasks = {} THEN 0 ELSE CodeOf(outcome[FirstFailing])

(* C6 as stated: with keepgoing off the final status is the same for every *)
(* arrival order of the completions, given the tasks, maxjobs and the      *)
(* outcome of each task. The arrival order in which the first failing task *)
(* is collected last among the failed jobs yields FirstFailStatus          *)
(* (C6_OriginalWitness), so every arrival order would have to yield it.    *)
C6_Original ==
    (pc = "exit" /\ ~opts.keepgoing) => status = FirstFailStatus

(* two jobs with different codes failed and the first failing task was     *)
(* collected last: the status is FirstFailStatus                           *)
C6_OriginalWitness ==
    /\ pc = "exit"
    /\ ~opts.keepgoing
    /\ Len(FailedCollected) = 2
    /\ FailedCollected[2] = FirstFailing
    /\ CodeOf(outcome[FailedCollected[1]]) # CodeOf(outcome[FailedCollected[2]])
    /\ status = FirstFailStatus

(* the failures of the run cannot be told apart by their code, or no two   *)
(* jobs run at the same time                                               *)
SameStatusCase ==
    \/ opts.maxjobs = 1
    \/ \A i, j \in FailingTasks : CodeOf(outcome[i]) = CodeOf(outcome[j])

(* C6 amended: with keepgoing off the final status is the same for every   *)
(* arrival order when maxjobs is 1 or when all failing tasks fail with the *)
(* same code (it is then the code of the first failing task, 0 when none   *)
(* fails); with more slots and different failure codes it depends on the   *)
(* arrival order.                                                          *)
C6_StatusDeterminedWhen ==
    (pc = "exit" /\ ~opts.keepgoing /\ SameStatusCase)
        => status = FirstFailStatus

(* C6 witness: two jobs running at the same time failed with the same code *)
(* and were collected in the reverse of the source order.                  *)
C6_Witness ==
    /\ pc = "exit"
    /\ ~opts.keepgoing
    /\ opts.maxjobs = 2
    /\ Len(FailedCollected) = 2
    /\ FailedCollected[1] > FailedCollected[2]
    /\ SameStatusCase
    /\ status = 137

(* C7: with keepgoing off, when the dispatch loop has stopped and the      *)
(* final drain has not begun, errs is 0 or 1.                              *)
C7_AtMostOneErrorAtLoopExit ==
    (pc = "loopexit" /\ ~opts.keepgoing) => errs \in {0, 1}

(* C7 witness: the loop has stopped on a failure collected while another   *)
(* job is still in flight.                                                 *)
C7_Witness ==
    /\ pc = "loopexit"
    /\ ~opts.keepgoing
    /\ errs = 1
    /\ numjobs > 0
    /\ Len(collected) >= 1

(* the writes made to one stream, in order *)
StreamWrites(s) == SelectSeq(trace, LAMBDA w : w.stream = s)

(* the writes of show_output: banner, captured bytes, closing banner *)
BlockKinds == {"open", "bytes", "close"}

(* between two writes of one job's block there are only writes of that block *)
Contiguous(seq) ==
    \A p, q \in 1 .. Len(seq) :
        (/\ p < q
         /\ seq[p].kind \in BlockKinds
         /\ seq[q].kind \in BlockKinds
         /\ seq[p].task = seq[q].task)
        => \A r \in p .. q :
              seq[r].task = seq[p].task /\ seq[r].kind \in BlockKinds

(* w is the write that follows v in a block, or the message of a fatal     *)
(* error that cut the block short                                          *)
FollowsInBlock(v, w, k) ==
    w = [v EXCEPT !.kind = k] \/ w.kind = "fatal"

(* a banner is followed at once by the bytes of its job, and these by the  *)
(* closing banner, unless the block is still being written                 *)
WellFormedBlocks(seq) ==
    \A p \in 1 .. Len(seq) :
        /\ (seq[p].kind = "open" /\ p < Len(seq))
              => FollowsInBlock(seq[p], seq[p + 1], "bytes")
        /\ (seq[p].kind = "bytes" /\ opts.verbose /\ seq[p].stream = "stderr")
              => /\ p > 1
                 /\ seq[p - 1] = [seq[p] EXCEPT !.kind = "open"]
                 /\ p < Len(seq)
                       => FollowsInBlock(seq[p], seq[p + 1], "close")
        /\ seq[p].kind = "close"
              => p > 1 /\ seq[p - 1] = [seq[p] EXCEPT !.kind = "bytes"]

(* C8: on each output stream the writes of one job's block (banner when    *)
(* verbose, captured bytes, closing banner) are contiguous: no write of    *)
(* another job and no log line lies between them, whatever the watcher     *)
(* threads do meanwhile.                                                   *)
C8_BlocksContiguous ==
    \A s \in {"stderr", "stdout"} :
        Contiguous(StreamWrites(s)) /\ WellFormedBlocks(StreamWrites(s))

(* C8 witness: a banner and the bytes of a job are written, its closing    *)
(* banner is not, and meanwhile the watcher of another job has sent its    *)
(* job and a third child is still running.                                 *)
C8_Witness ==
    /\ opts.verbose
    /\ pc = "show_stderr"
    /\ Len(pending) = 1
    /\ trace # <<>>
    /\ trace[Len(trace)] = Line("stderr", job, "bytes")
    /\ queue # <<>>
    /\ \E i \in Tasks : Line("stderr", i, "close") \in
                             {trace[k] : k \in 1 .. Len(trace)}

(* C9: in dry-run mode nothing is spawned, numjobs stays 0, no watcher is  *)
(* launched, errs stays 0, the lines printed are one per task in           *)
(* increasing task order, and the status of a run that ends is 0 with all  *)
(* tasks printed, with keepgoing or without.                               *)
C9_DryRun ==
    opts.dryrun =>
        /\ numjobs = 0
        /\ errs = 0
        /\ \A i \in Tasks : child[i] = "none" /\ ~Known(i)
        /\ queue = <<>>
        /\ collected = <<>>
        /\ dispatched = [k \in 1 .. Len(dispatched) |-> k - 1]
        /\ StreamWrites("stdout")
              = [k \in 1 .. Len(dispatched) |-> Line("stdout", k - 1, "dryrun")]
        /\ \A k \in 1 .. Len(trace) : trace[k].kind \in {"dryrun", "fatal"}
        /\ pc = "exit" => (status = 0 /\ Len(dispatched) = ntasks)

(* C9 witness: a dry run of the largest task list has ended, with fewer    *)
(* slots than tasks.                                                       *)
C9_Witness ==
    /\ opts.dryrun
    /\ pc = "exit"
    /\ ntasks = MaxTasks
    /\ opts.maxjobs < ntasks
    /\ Len(StreamWrites("stdout")) = ntasks

(* the step is a failed spawn of the current task *)
SpawnFailsNow ==
    /\ pc = "loop"
    /\ tasknum < ntasks
    /\ ~Known(tasknum)
    /\ outcome'[tasknum].kind = "spawnfail"

(* C10: a failed spawn adds exactly one to errs, leaves numjobs and        *)
(* failedexit as they are and launches no watcher, so the task never runs, *)
(* is never sent on the channel and never collected; and a fail-fast run   *)
(* whose only failure is a failed spawn ends with status 255.              *)
C10_SpawnFailure ==
    /\ [][SpawnFailsNow =>
            /\ errs' = errs + 1
            /\ numjobs' = numjobs
            /\ failedexit' = failedexit
            /\ queue' = queue
            /\ child'[tasknum] \notin {"running", "sent", "received",
                                       "collected"}]_vars
    /\ [](\A i \in Tasks : outcome[i].kind = "spawnfail" =>
            /\ child[i] = "spawnfailed"
            /\ \A k \in 1 .. Len(queue) : queue[k] # i
            /\ \A k \in 1 .. Len(collected) : collected[k] # i
            /\ job # i)
    /\ []((pc = "exit" /\ ~opts.keepgoing /\ SpawnFailedTasks # {}
             /\ ErrorCount = 1) => status = 255)

(* C10 witness: a fail-fast run has ended with status 255 after a failed   *)
(* spawn, its only failure, made while a job that succeeded was in flight. *)
C10_Witness ==
    /\ pc = "exit"
    /\ ~opts.keepgoing
    /\ SpawnFailedTasks # {}
    /\ errs = 1
    /\ collected # <<>>
    /\ status = 255

(* C11: with maxjobs = 1 and keepgoing off, no task after the first task   *)
(* whose command fails is ever dispatched, and the final status is the     *)
(* code of that task: n for exit n, 128 + sig for a signal, 255 for a wait *)
(* error or a failed spawn; once a task has failed no step dispatches.     *)
C11_SequentialFailFast ==
    /\ []((opts.maxjobs = 1 /\ ~opts.keepgoing /\ FailingTasks # {}) =>
            /\ \A k \in 1 .. Len(dispatched) : dispatched[k] <= FirstFailing
            /\ \A i \in Tasks : i > FirstFailing => child[i] = "none"
            /\ pc = "exit" =>
                  status = (IF outcome[FirstFailing].kind = "exit"
                            THEN outcome[FirstFailing].n
                            ELSE IF outcome[FirstFailing].kind = "signal"
                                 THEN 128 + outcome[FirstFailing].n
                                 ELSE 255))
    /\ [][(opts.maxjobs = 1 /\ ~opts.keepgoing /\ FailingTasks # {}) =>
              dispatched' = dispatched]_vars

(* C11 witness: scenario B with one more task: one slot, the first task    *)
(* succeeded, the second exited with 2, the third was never spawned, and   *)
(* the status is 2.                                                        *)
C11_Witness ==
    /\ opts.maxjobs = 1
    /\ ~opts.keepgoing
    /\ pc = "exit"
    /\ ntasks = 3
    /\ outcome[0] = [kind |-> "exit", n |-> 0]
    /\ outcome[1] = [kind |-> "exit", n |-> 2]
    /\ child[2] = "none"
    /\ status = 2

(* how often task i occurs in a sequence of task indices *)
Occurrences(seq, i) == Cardinality({k \in 1 .. Len(seq) : seq[k] = i})

(* the Jobs of task i that exist: on the channel, held by wait_jobs, or    *)
(* classified                                                              *)
Deliveries(i) ==
    Occurrences(queue, i) + Occurrences(collected, i)
    + (IF job = i THEN 1 ELSE 0)

(* C12: if every spawned process terminates, master returns (or the run    *)
(* dies of a fatal error); when it returns numjobs is 0, nothing is left   *)
(* on the channel and every successfully spawned job has been classified   *)
(* exactly once; no Job is ever lost or delivered twice.                   *)
C12_DrainCompletes ==
    /\ <>(pc \in {"exit", "died"})
    /\ [](\A i \in Tasks :
            Deliveries(i) = IF child[i] \in {"sent", "received", "collected"}
                            THEN 1 ELSE 0)
    /\ [](pc = "exit" =>
            /\ numjobs = 0
            /\ queue = <<>>
            /\ job = -1
            /\ \A i \in Tasks :
                  /\ child[i] \in {"none", "spawnfailed", "collected"}
                  /\ Occurrences(collected, i)
                        = IF child[i] = "collected" THEN 1 ELSE 0
                  /\ (~opts.dryrun /\ Occurrences(dispatched, i) = 1)
                        => child[i] \in {"spawnfailed", "collected"})

(* C12 witness: master has returned from a fail-fast run in which a second *)
(* job was still in flight when the first failure stopped the loop, and    *)
(* that job has been classified too.                                       *)
C12_Witness ==
    /\ pc = "exit"
    /\ ~opts.keepgoing
    /\ opts.maxjobs = 2
    /\ numjobs = 0
    /\ Len(collected) = 2
    /\ NotSuccess(outcome[collected[1]])
    /\ collected[1] > collected[2]

(* C13: a keep-going run that ends by master returning has a final status  *)
(* in 0 .. 254, and the status is 0 exactly when no task failed (no failed *)
(* spawn, no outcome other than Success); the step that ends such a run   *)
(* sets the status to the smaller of 254 and errs.                         *)
C13_KeepGoingStatus ==
    /\ []((pc = "exit" /\ opts.keepgoing) =>
            /\ status \in 0 .. 254
            /\ status = 0 <=> FailingTasks = {}
            /\ ~opts.dryrun =>
                  (status = 0 <=>
                      \A i \in Tasks :
                          /\ child[i] = "collected"
                          /\ outcome[i] = [kind |-> "exit", n |-> 0]))
    /\ [][(pc' = "exit" /\ opts.keepgoing) =>
              status' = (IF errs < 254 THEN errs ELSE 254)]_vars

(* C13 witness: a keep-going run has ended with a nonzero status although  *)
(* the code of the job classified last was the wait-error code 255.        *)
C13_Witness ==
    /\ pc = "exit"
    /\ opts.keepgoing
    /\ failedexit = 255
    /\ Len(FailedCollected) >= 1
    /\ \E i \in CollectedTasks : ~NotSuccess(outcome[i])
    /\ status \in 1 .. 254

(* the failure that decides the status of a fail-fast run carries code 255 *)
LastFailureIs255 ==
    IF FailedCollected = <<>>
    THEN SpawnFailedTasks # {}
    ELSE LET o == outcome[FailedCollected[Len(FailedCollected)]]
         IN  o.kind = "waiterr" \/ (o.kind = "exit" /\ o.n = 255)

(* C14 as stated: a run that ends by master returning and main computing   *)
(* the status, without a fatal error, never exits with 255.                *)
C14_Original ==
    pc = "exit" => status # 255

(* C14 amended: with keepgoing a run that ends by master returning never   *)
(* exits with 255; without keepgoing it exits with 255 exactly when the    *)
(* failure that decides the status is a wait error, a child that exited    *)
(* with 255, or a failed spawn with no failed job classified; a step sets  *)
(* the status to 255 only in a fatal error or when master returns without  *)
(* keepgoing, with errs above 0 and failedexit at 255.                     *)
C14_Status255Only ==
    /\ [](pc = "exit" =>
            (status = 255 <=> (~opts.keepgoing /\ LastFailureIs255)))
    /\ [][(status' # status /\ status' = 255) =>
              \/ pc' = "died"
              \/ /\ pc' = "exit"
                 /\ ~opts.keepgoing
                 /\ errs > 0
                 /\ failedexit = 255]_vars

(* C14 witness: a fail-fast run has ended by master returning with status  *)
(* 255 after a wait error on a job classified after a job that succeeded.  *)
C14_Witness ==
    /\ pc = "exit"
    /\ ~opts.keepgoing
    /\ status = 255
    /\ Len(collected) >= 2
    /\ outcome[collected[Len(collected)]].kind = "waiterr"
    /\ SpawnFailedTasks = {}

(* the master is inside done_job for the job it received *)
InDoneJob == pc \in {"show_stderr", "show_stdout", "classify"}

(* C15: the master starts every dispatch iteration with numjobs below      *)
(* maxjobs; it enters the wait during dispatch only with numjobs equal to  *)
(* maxjobs, and that wait receives exactly one job: numjobs is maxjobs - 1 *)
(* while the job is processed and when the master goes on to the next      *)
(* task, with one more job collected and no second job received.           *)
C15_OneSlotAtATime ==
    /\ [](pc = "loop" => numjobs < opts.maxjobs)
    /\ []((pc = "wait_jobs" /\ ~waitall) => numjobs = opts.maxjobs)
    /\ []((InDoneJob /\ ~waitall) => numjobs = opts.maxjobs - 1)
    /\ [][(pc = "loop" /\ pc' = "wait_jobs") =>
              (~waitall' /\ numjobs' = opts.maxjobs)]_vars
    /\ [][(pc = "loop" /\ numjobs' < opts.maxjobs) => pc' # "wait_jobs"]_vars
    /\ [][(pc = "wait_jobs" /\ ~waitall /\ pc' # pc) =>
              (pc' = "show_stderr" /\ numjobs' = numjobs - 1)]_vars
    /\ [][(pc = "classify" /\ ~waitall /\ pc' # pc) =>
              /\ pc' \in {"loop", "loopexit"}
              /\ numjobs' = opts.maxjobs - 1
              /\ Len(collected') = Len(collected) + 1
              /\ queue' = queue]_vars

(* C15 witness: with two slots the master is back at the start of a        *)
(* dispatch iteration after one backpressure wait, one job collected, one  *)
(* still in flight and a second completion already waiting in the queue.   *)
C15_Witness ==
    /\ pc = "loop"
    /\ opts.maxjobs = 2
    /\ ~waitall
    /\ Len(collected) = 1
    /\ numjobs = 1
    /\ Len(queue) = 1
    /\ tasknum = 2

(* the writes of done_job: the two blocks of show_output and the status line *)
CollectorKinds == BlockKinds \cup {"done", "exit", "signal", "waiterr"}

(* 1: the stderr block, 2: the stdout bytes, 3: the status line *)
Phase(w) ==
    IF w.kind \in BlockKinds
    THEN (IF w.stream = "stderr" THEN 1 ELSE 2)
    ELSE 3

(* the jobs the master has received, in the order of reception *)
JobsTaken == collected \o (IF job = -1 THEN <<>> ELSE <<job>>)

Written(w) == \E k \in 1 .. Len(trace) : trace[k] = w

(* both captured streams of task i have been emitted where non-empty *)
OutputShown(i) ==
    /\ captured.stderr > 0 <=> Written(Line("stderr", i, "bytes"))
    /\ captured.stdout > 0 <=> Written(Line("stdout", i, "bytes"))

(* a status line of task i is in the log tr *)
StatusLoggedIn(tr, i) ==
    \E p \in 1 .. Len(tr) :
        /\ tr[p].task = i
        /\ tr[p].kind \in {"done", "exit", "signal", "waiterr"}

StatusLogged(i) == StatusLoggedIn(trace, i)

(* the part of done_job the master is in: 1 stderr, 2 stdout, 3 the match *)
PhaseOfPc ==
    IF pc = "show_stderr" THEN 1 ELSE IF pc = "show_stdout" THEN 2 ELSE 3

(* C16: every step that writes a block or a status line writes it for the  *)
(* job the master holds, in the part of done_job the master is in; for one *)
(* job the master goes from the stderr block to the stdout bytes to the    *)
(* match and only then lets go of the job; when a job is classified both   *)
(* its non-empty streams are emitted, and what is written stays written;   *)
(* the job in the match has both streams emitted and no status line yet;   *)
(* the master receives a job only when it                                  *)
(* holds none, and it is the oldest in the queue, to which watchers only   *)
(* append.                                                                 *)
C16_CollectorOrder ==
    /\ [][\A k \in (Len(trace) + 1) .. Len(trace') :
              trace'[k].kind \in CollectorKinds =>
                  /\ InDoneJob
                  /\ trace'[k].task = job
                  /\ Phase(trace'[k]) = PhaseOfPc]_vars
    /\ [][(InDoneJob /\ pc' # pc) =>
              \/ pc' = "died"
              \/ pc = "show_stderr" /\ pc' = "show_stdout" /\ job' = job
              \/ pc = "show_stdout" /\ pc' = "classify" /\ job' = job
              \/ /\ pc = "classify"
                 /\ job' = -1
                 /\ collected' = Append(collected, job)]_vars
    /\ [][(job # -1 /\ job' # job) => pc = "classify"]_vars
    /\ [][collected' # collected =>
              /\ OutputShown(job)
              /\ (opts.verbose \/ outcome[job].kind = "waiterr")
                    <=> StatusLoggedIn(trace', job)]_vars
    /\ [][/\ Len(trace') >= Len(trace)
          /\ SubSeq(trace', 1, Len(trace)) = trace]_vars
    /\ [](pc = "classify" => OutputShown(job) /\ ~StatusLogged(job))
    /\ [](pc = "show_stdout" =>
              /\ captured.stderr > 0 <=> Written(Line("stderr", job, "bytes"))
              /\ ~StatusLogged(job))
    /\ [](pc = "show_stderr" =>
              ~Written(Line("stdout", job, "bytes")) /\ ~StatusLogged(job))
    /\ [][(job' # job /\ job' # -1) =>
              /\ job = -1
              /\ queue # <<>>
              /\ job' = Head(queue)
              /\ queue' = Tail(queue)]_vars
    /\ [][queue' # queue =>
              \/ queue # <<>> /\ queue' = Tail(queue) /\ job' = Head(queue)
              \/ \E i \in Tasks : /\ child[i] = "running"
                                  /\ queue' = Append(queue, i)]_vars

(* C16 witness: in verbose mode a first job has had its stderr block, its  *)
(* stdout bytes and its status line written, and the collector is inside   *)
(* the stderr block of a second job, received out of task order.           *)
C16_Witness ==
    /\ opts.verbose
    /\ captured.stderr > 0
    /\ captured.stdout > 0
    /\ Len(collected) = 1
    /\ StatusLogged(collected[1])
    /\ pc = "show_stderr"
    /\ Len(pending) = 2
    /\ job < collected[1]

HasStartLine(i) == Written(Line("stderr", i, "start"))

(* C17 as stated: a task whose spawn failed has no "start" line, and every *)
(* task with a "start" line was spawned (it has a watcher and took a slot). *)
C17_Original ==
    \A i \in Tasks :
        /\ child[i] = "spawnfailed" => ~HasStartLine(i)
        /\ HasStartLine(i) =>
              child[i] \in {"running", "sent", "received", "collected"}

(* where the "start" lines are in the log *)
StartLineState ==
    /\ \A i \in Tasks :
          HasStartLine(i) <=>
              /\ opts.verbose
              /\ ~opts.dryrun
              /\ child[i] \in {"running", "sent", "received", "collected",
                               "spawnfailed"}
    /\ \A i \in Tasks :
          Occurrences(trace, Line("stderr", i, "start")) <= 1
    /\ \A p \in 1 .. Len(trace) :
          (trace[p].kind = "error" /\ opts.verbose) =>
              p > 1 /\ trace[p - 1] = Line("stderr", trace[p].task, "start")
    /\ \A p \in 1 .. Len(trace) :
          (trace[p].kind = "start" /\ child[trace[p].task] = "spawnfailed") =>
              /\ p < Len(trace)
              /\ trace[p + 1] = Line("stderr", trace[p].task, "error")

(* C17 amended: a "start" line is written exactly for the tasks whose      *)
(* spawn was attempted in verbose mode without dryrun, whether the spawn   *)
(* succeeded or not; it is written once, and for a failed spawn the        *)
(* "error" line of the task follows it at once; the line is written in     *)
(* the step that attempts the spawn.                                       *)
C17_StartLineOnAttempt ==
    /\ []StartLineState
    /\ [][\A k \in (Len(trace) + 1) .. Len(trace') :
              trace'[k].kind = "start" =>
                  /\ pc = "loop"
                  /\ trace'[k].task = tasknum
                  /\ child[tasknum] = "none"
                  /\ child'[tasknum] \in {"running", "spawnfailed"}]_vars

(* C17 witness: in verbose mode a task was spawned and has its "start"     *)
(* line, and a later task whose spawn failed has one too.                  *)
C17_Witness ==
    /\ opts.verbose
    /\ \E i, j \in Tasks :
          /\ i < j
          /\ child[i] = "running"
          /\ HasStartLine(i)
          /\ child[j] = "spawnfailed"
          /\ HasStartLine(j)

(* C18: the step that classifies job i keeps errs and failedexit for a     *)
(* Success, adds 1 to errs and stores n for exit n, 128 + sig for a        *)
(* signal and 255 for a wait error, whose warning is written whether or    *)
(* not verbose is set; it leaves numjobs, the queue and the final status   *)
(* alone; failedexit changes in no other step, and errs otherwise only     *)
(* when a spawn fails.                                                     *)
C18_DoneJobEffects ==
    /\ [][collected' # collected =>
              LET o == outcome[job]
              IN  /\ pc = "classify"
                  /\ collected' = Append(collected, job)
                  /\ o = [kind |-> "exit", n |-> 0] =>
                        errs' = errs /\ failedexit' = failedexit
                  /\ (o.kind = "exit" /\ o.n # 0) =>
                        errs' = errs + 1 /\ failedexit' = o.n
                  /\ o.kind = "signal" =>
                        errs' = errs + 1 /\ failedexit' = 128 + o.n
                  /\ o.kind = "waiterr" =>
                        /\ errs' = errs + 1
                        /\ failedexit' = 255
                        /\ trace' = Append(trace, Line("stderr", job, "waiterr"))
                  /\ (o.kind # "waiterr" /\ ~opts.verbose) => trace' = trace
                  /\ UNCHANGED <<opts, ntasks, captured, outcome, numjobs,
                                 queue, dispatched, status, waitall>>]_vars
    /\ [][failedexit' # failedexit => collected' # collected]_vars
    /\ [][errs' # errs =>
              \/ collected' # collected
              \/ /\ errs' = errs + 1
                 /\ failedexit' = failedexit
                 /\ \E i \in Tasks : child[i] = "none"
                                     /\ child'[i] = "spawnfailed"]_vars

(* C18 witness: a job killed by a signal was classified first (137), then  *)
(* a job that exited with 2: failedexit is 2, the smaller and later code,  *)
(* and a job that succeeded after them has changed neither field.          *)
C18_Witness ==
    /\ Len(collected) = 3
    /\ outcome[collected[1]].kind = "signal"
    /\ outcome[collected[2]] = [kind |-> "exit", n |-> 2]
    /\ outcome[collected[3]] = [kind |-> "exit", n |-> 0]
    /\ failedexit = 2
    /\ errs = 2

(* C19 as stated: every spawned job is eventually collected (or the run    *)
(* dies of a fatal error), however much its child writes to the captured   *)
(* pipes, and the run ends.                                                *)
C19_NoPipeDeadlock ==
    /\ \A i \in 0 .. (MaxTasks - 1) :
          (i \in Tasks /\ child[i] = "running")
              ~> (pc = "died" \/ (i \in Tasks /\ child[i] = "collected"))
    /\ <>(pc \in {"exit", "died"})

(* the state the run stays in: a child has more to write than its pipes    *)
(* hold, its watcher is in child.wait(), the master is in rx.recv()        *)
C19_BlockedOnFullPipe ==
    /\ ~ChildCanExit
    /\ LiveChildren # {}
    /\ pc = "wait_jobs"
    /\ queue = <<>>
    /\ numjobs = Cardinality(LiveChildren)

(* tasks whose spawn returned Ok *)
SpawnedTasks ==
    {i \in Tasks : child[i] \in {"running", "sent", "received", "collected"}}

(* C20: when master has returned, in keep-going and in fail-fast mode,     *)
(* errs is the number of failed spawns plus the number of jobs classified  *)
(* as not Success, and every spawned job has been classified; in every     *)
(* state numjobs is the number of successful spawns minus the number of    *)
(* jobs wait_jobs has taken from the queue (the jobs classified and the    *)
(* one done_job is working on), and no step changes numjobs other than a   *)
(* successful spawn (+1) and the reception of a job (-1).                  *)
C20_Accounting ==
    /\ [](pc = "exit" =>
              /\ errs = Cardinality(SpawnFailedTasks) + Len(FailedCollected)
              /\ Len(collected) = Cardinality(SpawnedTasks)
              /\ job = -1)
    /\ [](numjobs = Cardinality(SpawnedTasks) - Len(JobsTaken))
    /\ [](pc # "died" =>
              Len(JobsTaken) = Len(collected) + (IF InDoneJob THEN 1 ELSE 0))
    /\ [][numjobs' # numjobs =>
              \/ /\ numjobs' = numjobs + 1
                 /\ Cardinality(SpawnedTasks') = Cardinality(SpawnedTasks) + 1
                 /\ JobsTaken' = JobsTaken
              \/ /\ numjobs' = numjobs - 1
                 /\ SpawnedTasks' = SpawnedTasks
                 /\ Len(JobsTaken') = Len(JobsTaken) + 1]_vars

(* C20 witness: a fail-fast run has returned from master after two         *)
(* successful spawns, one of them classified as failed during the final    *)
(* wait, and one failed spawn: errs is 2 and numjobs is back to 0.         *)
C20_Witness ==
    /\ pc = "exit"
    /\ ~opts.keepgoing
    /\ Cardinality(SpawnedTasks) = 2
    /\ Cardinality(SpawnFailedTasks) = 1
    /\ Len(FailedCollected) = 1
    /\ errs = 2
    /\ numjobs = 0

====
